---- MODULE Spec2Model ----
(***************************************************************************)
(* WorldSim: the world-generation pipeline (WorldGenerator, ClimateSystem) *)
(* and the App handlers that drive it.                                     *)
(*                                                                         *)
(* Numbers.  The program computes in IEEE doubles; the model computes in   *)
(* fixed point: elevations, moistures, sea levels, sunlight, insolation    *)
(* and cosines are integers in thousandths (1.0 is 1000), temperatures are *)
(* thousandths of a degree C, latitudes and longitudes are whole degrees,  *)
(* rotation/orbital periods are tenths of a day, and a Math.random() draw  *)
(* is a number of RandDen-ths in 0 .. RandDen-1 (so it lies in [0,1)).     *)
(***************************************************************************)
EXTENDS Integers, Sequences, FiniteSets, TLC

----------------------------------------------------------------------------
(* Bounds of the model *)

\* number of resolution-0 cells of the grid (h3 has 122)
NumBase == 3
\* children of a cell per resolution step (h3 has 7, 6 under a pentagon)
Branch == 2
\* number of loadHeightMap calls in one run
MaxLoads == 2

----------------------------------------------------------------------------
(* Arithmetic helpers *)

Abs(x) == IF x < 0 THEN -x ELSE x

Min(a, b) == IF a < b THEN a ELSE b

Max(a, b) == IF a > b THEN a ELSE b

\* Math.floor(Math.sqrt(n)) for a natural n
Sqrt(n) == CHOOSE r \in 0..n : r * r <= n /\ (r + 1) * (r + 1) > n

\* Math.cos of a whole number of degrees, in thousandths (Bhaskara's
\* approximation on [-90, 90], reflected outside it): exact at 0, 60, 90, 180
RECURSIVE CosDeg(_)
CosDeg(d) ==
    LET a == Abs(((d + 180) % 360) - 180)
    IN  IF a <= 90
        THEN (1000 * (32400 - 4 * a * a)) \div (32400 + a * a)
        ELSE -CosDeg(180 - a)

\* Math.sin of a whole number of degrees, in thousandths
SinDeg(d) == CosDeg(90 - d)

\* bitwise exclusive or of two naturals (the ^ of h ^= seed.charCodeAt(i))
RECURSIVE Xor(_, _)
Xor(a, b) ==
    IF a = 0 THEN b
    ELSE IF b = 0 THEN a
    ELSE (((a % 2) + (b % 2)) % 2) + 2 * Xor(a \div 2, b \div 2)

----------------------------------------------------------------------------
(* ClimateSystem *)

calculateInsolation(lat, lon, tilt, sunlight, rotationPeriod, orbitalPeriod) ==
    LET isTidallyLocked == Abs(rotationPeriod - orbitalPeriod) < 1
    IN  IF isTidallyLocked
        THEN LET raw == (CosDeg(lat) * CosDeg(lon)) \div 1000
                 dot == IF raw < 0 THEN 0 ELSE raw
             IN  (dot * sunlight) \div 1000
        ELSE (CosDeg(lat) * sunlight) \div 1000

\* the sign of the double Math.cos(d * Math.PI / 180) for a whole number of
\* degrees d in -180 .. 180.  No double is a zero of the cosine: the double
\* 90 * Math.PI / 180 lies just below pi/2 and its cosine is
\* 6.123233995736766e-17, a positive number below the resolution of CosDeg
CosSign(d) == IF Abs(((d + 180) % 360) - 180) <= 90 THEN 1 ELSE -1

\* whether the double calculateInsolation returns is exactly zero: dot is a
\* product of two non-zero cosines, zero only by the clamp of `dot < 0`, and
\* dot * sunlight is zero only if a factor is
InsolationIsZero(lat, lon, sunlight, rotationPeriod, orbitalPeriod) ==
    LET isTidallyLocked == Abs(rotationPeriod - orbitalPeriod) < 1
    IN  IF isTidallyLocked
        THEN CosSign(lat) * CosSign(lon) < 0 \/ sunlight = 0
        ELSE sunlight = 0

calculateTemperature(insolation, height, seaLevel) ==
    LET temp == -20000 + insolation * 50
    IN  IF height > seaLevel
        THEN temp - (height - seaLevel) * 80
        ELSE temp

calculateMoisture(lat, height, seaLevel, rotationSpeed) ==
    LET cellWidth == 30 \div Sqrt(rotationSpeed)
        latAbs == Abs(lat)
        phase == (latAbs * 180) \div cellWidth
        base0 == (CosDeg(phase) + 1000) \div 2
        base1 == (base0 * 8) \div 10 + 100
        base2 == IF height > seaLevel
                 THEN base1 + ((height - seaLevel) * 5) \div 10
                 ELSE base1
    IN  Min(1000, Max(0, base2))

\* a variant of determineBiome in which a cell exactly at sea level is land;
\* C6 must fail of it
determineBiome_StrictOcean(temp, moisture, height, seaLevel) ==
    IF height < seaLevel THEN "OCEAN"
    ELSE IF temp < -5000 THEN "ICE"
    ELSE IF temp < 5000 THEN "TUNDRA"
    ELSE IF temp > 20000
         THEN IF moisture > 800 THEN "TROPICAL_RAINFOREST"
              ELSE IF moisture > 400 THEN "SAVANNA"
              ELSE "DESERT"
    ELSE IF temp > 10000
         THEN IF moisture > 600 THEN "TEMPERATE_FOREST"
              ELSE IF moisture > 300 THEN "GRASSLAND"
              ELSE "DESERT"
    ELSE IF moisture > 500 THEN "TAIGA"
    ELSE "TUNDRA"

\* a variant of determineBiome in which exactly 5 degrees is still TUNDRA;
\* C10 must fail of it
determineBiome_Inclusive5(temp, moisture, height, seaLevel) ==
    IF height <= seaLevel THEN "OCEAN"
    ELSE IF temp < -5000 THEN "ICE"
    ELSE IF temp <= 5000 THEN "TUNDRA"
    ELSE IF temp > 20000
         THEN IF moisture > 800 THEN "TROPICAL_RAINFOREST"
              ELSE IF moisture > 400 THEN "SAVANNA"
              ELSE "DESERT"
    ELSE IF temp > 10000
         THEN IF moisture > 600 THEN "TEMPERATE_FOREST"
              ELSE IF moisture > 300 THEN "GRASSLAND"
              ELSE "DESERT"
    ELSE IF moisture > 500 THEN "TAIGA"
    ELSE "TUNDRA"

determineBiome(temp, moisture, height, seaLevel) ==
    IF height <= seaLevel THEN "OCEAN"
    ELSE IF temp < -5000 THEN "ICE"
    ELSE IF temp < 5000 THEN "TUNDRA"
    ELSE IF temp > 20000
         THEN IF moisture > 800 THEN "TROPICAL_RAINFOREST"
              ELSE IF moisture > 400 THEN "SAVANNA"
              ELSE "DESERT"
    ELSE IF temp > 10000
         THEN IF moisture > 600 THEN "TEMPERATE_FOREST"
              ELSE IF moisture > 300 THEN "GRASSLAND"
              ELSE "DESERT"
    ELSE IF moisture > 500 THEN "TAIGA"
    ELSE "TUNDRA"

----------------------------------------------------------------------------
(* Sequence helpers *)

Range(s) == {s[i] : i \in 1..Len(s)}

\* Array.prototype.map
Map(s, F(_)) == [i \in 1..Len(s) |-> F(s[i])]

\* the concatenation of a sequence of sequences (allCells.push(...children))
RECURSIVE Flatten(_)
Flatten(ss) == IF ss = <<>> THEN <<>> ELSE Head(ss) \o Flatten(Tail(ss))

----------------------------------------------------------------------------
(* The grid (h3-js).  A cell id is the path from its resolution-0 cell:   *)
(* <<b>> is base cell b, <<b, d>> its d-th child, and so on.               *)

RECURSIVE Pow(_, _)
Pow(b, e) == IF e = 0 THEN 1 ELSE b * Pow(b, e - 1)

\* getRes0Cells()
getRes0Cells == [b \in 1..NumBase |-> <<b>>]

\* cellToChildren(c, res): the descendants of c at resolution res, in order
RECURSIVE cellToChildren(_, _)
cellToChildren(c, res) ==
    IF Len(c) - 1 >= res THEN <<c>>
    ELSE Flatten([d \in 1..Branch |-> cellToChildren(Append(c, d), res)])

\* the resolution of a cell
CellRes(c) == Len(c) - 1

\* the number of cells of resolution r
CellCount(r) == NumBase * Pow(Branch, r)

\* the position (from 0) of a cell among the cells of its resolution
RECURSIVE CellPos(_)
CellPos(c) ==
    IF Len(c) = 1 THEN c[1] - 1
    ELSE CellPos(SubSeq(c, 1, Len(c) - 1)) * Branch + (c[Len(c)] - 1)

\* the cell of resolution r at position k
RECURSIVE CellAt(_, _)
CellAt(r, k) ==
    IF r = 0 THEN <<k + 1>>
    ELSE Append(CellAt(r - 1, k \div Branch), (k % Branch) + 1)

\* cellToLatLng(c): the centroid <<lat, lon>> in whole degrees
cellToLatLng(c) ==
    LET n == CellCount(CellRes(c))
        k == CellPos(c)
    IN  << -90 + (180 * k + 90) \div n,
           -180 + (360 * ((5 * k) % n) + 180) \div n >>

\* gridDisk(c, 1): c and its neighbours; the model's cells of one resolution
\* form a ring
gridDisk(c) ==
    LET n == CellCount(CellRes(c))
        k == CellPos(c)
        prev == CellAt(CellRes(c), (k + n - 1) % n)
        next == CellAt(CellRes(c), (k + 1) % n)
    IN  IF n = 1 THEN <<c>>
        ELSE IF prev = next THEN <<c, next>>
        ELSE <<c, prev, next>>

----------------------------------------------------------------------------
(* Seeds and the noise field (simplex-noise) *)

\* a seed string is the sequence of its char codes
SeedDefault == <<119, 111, 114, 108, 100, 45, 115, 105, 109>>

\* 0x811c9dc5 as <<high 16 bits, low 16 bits>>
FnvOffset == <<33052, 40389>>

\* h ^= code; h = Math.imul(h, 0x01000193), on <<high, low>> halves
HashStep(h, code) ==
    LET lo == Xor(h[2], code % 65536)
        pl == lo * 403
    IN  << (h[1] * 403 + lo * 256 + pl \div 65536) % 65536, pl % 65536 >>

RECURSIVE HashFold(_, _, _)
HashFold(h, seed, i) ==
    IF i > Len(seed) THEN h ELSE HashFold(HashStep(h, seed[i]), seed, i + 1)

\* the seed's random function: (h >>> 0) / 4294967296, as the halves
\* <<hi, lo>> of the numerator h >>> 0
SeedRandom(seed) == HashFold(FnvOffset, seed, 1)

\* createNoise3D(random): the field is built from the values random()
\* returns, and this random() returns one value only
createNoise3D(random) == random

\* noise3D(x, y, z) of the field p, a value in [-1, 1] (thousandths)
Noise3D(p, x, y, z) ==
    ((p[1] * 31 + p[2] * 17 + x * 7 + y * 13 + z * 29) % 2001) - 1000

getNoise(p, lat, lon) ==
    LET cosLat == CosDeg(lat)
        sinLat == SinDeg(lat)
        cosLon == CosDeg(lon)
        sinLon == SinDeg(lon)
        x == (cosLat * cosLon) \div 1000
        y == (cosLat * sinLon) \div 1000
        z == sinLat
        v == Noise3D(p, x, y, z)
             + Noise3D(p, x * 2, y * 2, z * 2) \div 2
             + Noise3D(p, x * 4, y * 4, z * 4) \div 4
    IN  (v * 100) \div 175

----------------------------------------------------------------------------
(* Height-map files.  A file either decodes to a grayscale image or does   *)
(* not; a canvas context is named by the file drawn into it.               *)

NoContext == "null"

Files == {"A", "B", "X"}

\* whether the browser can decode the file (img.onload rather than onerror)
Decodes(f) == f # "X"

\* img.width
ImageWidth(f) == IF f = "A" THEN 2 ELSE 1

\* img.height
ImageHeight(f) == IF f = "A" THEN 1 ELSE 2

\* ctx.getImageData(x, y, 1, 1).data[0]: the red channel, 0 outside the canvas
getImageData(ctx, x, y) ==
    IF x < 0 \/ y < 0 \/ x >= ImageWidth(ctx) \/ y >= ImageHeight(ctx) THEN 0
    ELSE IF ctx = "A" THEN (IF x = 0 THEN 40 ELSE 255)
    ELSE (IF y = 0 THEN 230 ELSE 0)

\* the raster branch of generateWorld's first pass
SampleHeightMap(ctx, width, height, lat, lon) ==
    LET x == ((lon + 180) * width) \div 360
        y == ((90 - lat) * height) \div 180
        safeX == Max(0, Min(width - 1, x))
        safeY == Max(0, Min(height - 1, y))
        pixel == getImageData(ctx, safeX, safeY)
    IN  (pixel * 1000) \div 255

----------------------------------------------------------------------------
(* Math.random.  One call of generateWorld consumes a stream of draws; the *)
(* model gives it a tape of draws, read cyclically.                        *)

RandDen == 10

RandVals == {0, 4, 9}

Tapes == [1..2 -> RandVals]

\* the i-th Math.random() of a call
Draw(tape, i) == tape[((i - 1) % Len(tape)) + 1]

----------------------------------------------------------------------------
(* WorldGenerator.generateTectonicPlates *)

\* a variant of NearestPlate whose test is `dist <= minDist`, so that the
\* last of several nearest centers wins; C16 must fail of it
RECURSIVE NearestPlate_LastWins(_, _, _, _, _)
NearestPlate_LastWins(coord, centerCoords, pid, minDist, plateId) ==
    IF pid > Len(centerCoords) THEN plateId
    ELSE LET dLat == coord[1] - centerCoords[pid][1]
             dLon == coord[2] - centerCoords[pid][2]
             dist == dLat * dLat + dLon * dLon
         IN  IF minDist = -1 \/ dist <= minDist
             THEN NearestPlate_LastWins(coord, centerCoords, pid + 1, dist, pid)
             ELSE NearestPlate_LastWins(coord, centerCoords, pid + 1, minDist,
                                        plateId)

\* centerCoords.forEach((center, pid) => ...): the plate of the cell at
\* <<lat, lon>>; minDist = -1 stands for Infinity
RECURSIVE NearestPlate(_, _, _, _, _)
NearestPlate(coord, centerCoords, pid, minDist, plateId) ==
    IF pid > Len(centerCoords) THEN plateId
    ELSE LET dLat == coord[1] - centerCoords[pid][1]
             dLon == coord[2] - centerCoords[pid][2]
             dist == dLat * dLat + dLon * dLon
         IN  IF minDist = -1 \/ dist < minDist
             THEN NearestPlate(coord, centerCoords, pid + 1, dist, pid)
             ELSE NearestPlate(coord, centerCoords, pid + 1, minDist, plateId)

\* the number of plates
NumPlates(tape) == 8 + (Draw(tape, 1) * 5) \div RandDen

\* the plate centers
PlateCenters(cells, tape) ==
    [i \in 1..NumPlates(tape) |->
        cells[(Draw(tape, 1 + i) * Len(cells)) \div RandDen + 1]]

\* the plate index (from 1) of every cell
PlateMap(cells, tape) ==
    LET centerCoords == Map(PlateCenters(cells, tape), cellToLatLng)
    IN  [c \in Range(cells) |->
            NearestPlate(cellToLatLng(c), centerCoords, 1, -1, 1)]

\* the base elevation of every plate
PlateHeights(tape) ==
    [i \in 1..NumPlates(tape) |->
        (Draw(tape, 1 + NumPlates(tape) + i) * 800) \div RandDen + 100]

\* the number of draws generateTectonicPlates consumes
TectonicDraws(tape) == 1 + 2 * NumPlates(tape)

\* the returned heightMap: cell -> base elevation
generateTectonicPlates(cells, tape) ==
    LET plateMap == PlateMap(cells, tape)
        plateHeights == PlateHeights(tape)
    IN  [c \in Range(cells) |-> plateHeights[plateMap[c]]]

----------------------------------------------------------------------------
(* WorldGenerator.simulateRivers *)

numRivers == 50

MaxPathLength == 100

\* a variant of LowerNeighbor that keeps the first strictly lower neighbour
\* it meets; C14 must fail of it
RECURSIVE LowerNeighbor_First(_, _, _, _, _, _)
LowerNeighbor_First(self, neighbors, i, heightMap, bestNeighbor, lowestHeight) ==
    IF i > Len(neighbors) THEN <<bestNeighbor, lowestHeight>>
    ELSE LET n == neighbors[i]
         IN  IF n = self \/ bestNeighbor # <<>>
             THEN LowerNeighbor_First(self, neighbors, i + 1, heightMap,
                                      bestNeighbor, lowestHeight)
             ELSE IF n \in DOMAIN heightMap /\ heightMap[n] < lowestHeight
             THEN LowerNeighbor_First(self, neighbors, i + 1, heightMap,
                                      n, heightMap[n])
             ELSE LowerNeighbor_First(self, neighbors, i + 1, heightMap,
                                      bestNeighbor, lowestHeight)

\* for (const n of neighbors): the lowest neighbour strictly below the
\* current height; the result is <<bestNeighbor, lowestHeight>>, with
\* bestNeighbor = <<>> standing for null
RECURSIVE LowerNeighbor(_, _, _, _, _, _)
LowerNeighbor(self, neighbors, i, heightMap, bestNeighbor, lowestHeight) ==
    IF i > Len(neighbors) THEN <<bestNeighbor, lowestHeight>>
    ELSE LET n == neighbors[i]
         IN  IF n = self
             THEN LowerNeighbor(self, neighbors, i + 1, heightMap,
                                bestNeighbor, lowestHeight)
             ELSE IF n \in DOMAIN heightMap /\ heightMap[n] < lowestHeight
             THEN LowerNeighbor(self, neighbors, i + 1, heightMap,
                                n, heightMap[n])
             ELSE LowerNeighbor(self, neighbors, i + 1, heightMap,
                                bestNeighbor, lowestHeight)

\* a variant of RiverWalk that marks the current cell before it tests the
\* while condition, so that the last cell of a walk is marked too; C17 must
\* fail of it
RECURSIVE RiverWalk_MarkLast(_, _, _, _, _, _)
RiverWalk_MarkLast(h3Index, height, pathLength, heightMap, seaLevel, rivers) ==
    IF height > seaLevel /\ pathLength < MaxPathLength
    THEN LET best == LowerNeighbor(h3Index, gridDisk(h3Index), 1, heightMap,
                                   <<>>, height)
         IN  IF best[1] # <<>>
             THEN RiverWalk_MarkLast(best[1], best[2], pathLength + 1,
                                     heightMap, seaLevel,
                                     rivers \cup {h3Index})
             ELSE rivers \cup {h3Index}
    ELSE rivers \cup {h3Index}

\* the while loop of one trial: the river set after the walk from current
RECURSIVE RiverWalk(_, _, _, _, _, _)
RiverWalk(h3Index, height, pathLength, heightMap, seaLevel, rivers) ==
    IF height > seaLevel /\ pathLength < MaxPathLength
    THEN LET best == LowerNeighbor(h3Index, gridDisk(h3Index), 1, heightMap,
                                   <<>>, height)
         IN  IF best[1] # <<>>
             THEN RiverWalk(best[1], best[2], pathLength + 1, heightMap,
                            seaLevel, rivers \cup {h3Index})
             ELSE rivers \cup {h3Index}
    ELSE rivers

\* a variant of RiverCandidates that takes every cell above sea level as a
\* source; C11 must fail of it
RiverCandidates_AboveSea(cells, seaLevel) ==
    SelectSeq(cells, LAMBDA c : c.height > seaLevel)

\* cells.filter(c => c.height > seaLevel + 0.3)
RiverCandidates(cells, seaLevel) ==
    SelectSeq(cells, LAMBDA c : c.height > seaLevel + 300)

\* the source of trial i (from 0): trial i takes draw off + i + 1
TrialSource(i, candidates, tape, off) ==
    candidates[(Draw(tape, off + i + 1) * Len(candidates)) \div RandDen + 1]

\* the for loop over the trials 0 .. numRivers - 1.  A walk adds to rivers
\* and never reads it, so the set after the loop is the union of the sets
\* the walks from the trials' sources add; with no candidate the loop breaks
\* at once
RiverTrials(candidates, heightMap, seaLevel, tape, off) ==
    IF Len(candidates) = 0 THEN {}
    ELSE LET sources == { TrialSource(i, candidates, tape, off)
                          : i \in 0..(numRivers - 1) }
         IN  UNION { RiverWalk(c.h3Index, c.height, 0, heightMap, seaLevel, {})
                     : c \in sources }

simulateRivers(cells, seaLevel, tape, off) ==
    LET heightMap == [id \in {cells[i].h3Index : i \in 1..Len(cells)} |->
                        (CHOOSE c \in Range(cells) : c.h3Index = id).height]
    IN  RiverTrials(RiverCandidates(cells, seaLevel), heightMap, seaLevel,
                    tape, off)

----------------------------------------------------------------------------
(* WorldGenerator.generateWorld *)

\* a variant of ExpandCells that never expands the base cells; C3 must fail
\* of it
ExpandCells_BaseOnly(resolution) == getRes0Cells

\* Expand to target resolution
ExpandCells(resolution) ==
    IF resolution = 0 THEN getRes0Cells
    ELSE Flatten(Map(getRes0Cells, LAMBDA c : cellToChildren(c, resolution)))

\* a variant of CellHeight whose noise branch returns the noise itself, in
\* [-1, 1]; C5 must fail of it
CellHeight_Unshifted(g, h3Index, generationMethod, tectonicHeights) ==
    LET ll == cellToLatLng(h3Index)
    IN  IF g.heightMapContext # NoContext
        THEN SampleHeightMap(g.heightMapContext, g.heightMapWidth,
                             g.heightMapHeight, ll[1], ll[2])
        ELSE IF generationMethod = "tectonic" /\ tectonicHeights # <<>>
        THEN LET detail == getNoise(g.noise3D, ll[1], ll[2]) \div 10
             IN  Min(1000, Max(0, tectonicHeights[h3Index] + detail))
        ELSE getNoise(g.noise3D, ll[1], ll[2])

\* a variant of CellHeight that looks at the method before the height map;
\* C7 must fail of it
CellHeight_MethodFirst(g, h3Index, generationMethod, tectonicHeights) ==
    LET ll == cellToLatLng(h3Index)
    IN  IF generationMethod = "tectonic" /\ tectonicHeights # <<>>
        THEN LET detail == getNoise(g.noise3D, ll[1], ll[2]) \div 10
             IN  Min(1000, Max(0, tectonicHeights[h3Index] + detail))
        ELSE IF g.heightMapContext # NoContext
        THEN SampleHeightMap(g.heightMapContext, g.heightMapWidth,
                             g.heightMapHeight, ll[1], ll[2])
        ELSE (getNoise(g.noise3D, ll[1], ll[2]) + 1000) \div 2

\* the height of one cell in the first pass; g is the generator's state,
\* tectonicHeights is <<>> (null) unless the method is 'tectonic'
CellHeight(g, h3Index, generationMethod, tectonicHeights) ==
    LET ll == cellToLatLng(h3Index)
    IN  IF g.heightMapContext # NoContext
        THEN SampleHeightMap(g.heightMapContext, g.heightMapWidth,
                             g.heightMapHeight, ll[1], ll[2])
        ELSE IF generationMethod = "tectonic" /\ tectonicHeights # <<>>
        THEN LET detail == getNoise(g.noise3D, ll[1], ll[2]) \div 10
             IN  Min(1000, Max(0, tectonicHeights[h3Index] + detail))
        ELSE (getNoise(g.noise3D, ll[1], ll[2]) + 1000) \div 2

\* a variant of CellRecord without the RIVER override; C4 must fail of it
CellRecord_NoOverride(info, rivers, seaLevel, sunlight, axialTilt, rotationSpeed, rotationPeriod, orbitalPeriod) ==
    LET isRiver == info.h3Index \in rivers
        insolation == calculateInsolation(info.lat, info.lon, axialTilt,
                          sunlight, rotationPeriod, orbitalPeriod)
        temp == calculateTemperature(insolation, info.height, seaLevel)
        moisture0 == calculateMoisture(info.lat, info.height, seaLevel,
                                       rotationSpeed)
        moisture == IF isRiver THEN moisture0 + 300 ELSE moisture0
    IN  [h3Index |-> info.h3Index, lat |-> info.lat, lon |-> info.lon,
         height |-> info.height, temperature |-> temp, moisture |-> moisture,
         biome |-> determineBiome(temp, moisture, info.height, seaLevel),
         isRiver |-> isRiver]

\* the record of one cell in the final pass
CellRecord(info, rivers, seaLevel, sunlight, axialTilt, rotationSpeed, rotationPeriod, orbitalPeriod) ==
    LET isRiver == info.h3Index \in rivers
        insolation == calculateInsolation(info.lat, info.lon, axialTilt,
                          sunlight, rotationPeriod, orbitalPeriod)
        temp == calculateTemperature(insolation, info.height, seaLevel)
        moisture0 == calculateMoisture(info.lat, info.height, seaLevel,
                                       rotationSpeed)
        moisture == IF isRiver THEN moisture0 + 300 ELSE moisture0
        biome0 == determineBiome(temp, moisture, info.height, seaLevel)
        biome == IF isRiver /\ info.height > seaLevel THEN "RIVER" ELSE biome0
    IN  [h3Index |-> info.h3Index, lat |-> info.lat, lon |-> info.lon,
         height |-> info.height, temperature |-> temp, moisture |-> moisture,
         biome |-> biome, isRiver |-> isRiver]

\* the first pass
CellInfos(g, resolution, generationMethod, tape) ==
    LET allCells == ExpandCells(resolution)
        tectonicHeights == IF generationMethod = "tectonic"
                           THEN generateTectonicPlates(allCells, tape)
                           ELSE <<>>
    IN  Map(allCells, LAMBDA h3Index :
            [h3Index |-> h3Index,
             lat |-> cellToLatLng(h3Index)[1],
             lon |-> cellToLatLng(h3Index)[2],
             height |-> CellHeight(g, h3Index, generationMethod,
                                   tectonicHeights)])

\* the number of Math.random draws taken before simulateRivers
DrawsBeforeRivers(generationMethod, tape) ==
    IF generationMethod = "tectonic" THEN TectonicDraws(tape) ELSE 0

\* generateWorld on the generator state g with the arguments a and the
\* Math.random draws of tape
generateWorld(g, a, tape) ==
    LET cellInfos == CellInfos(g, a.resolution, a.generationMethod, tape)
        rivers == simulateRivers(cellInfos, a.seaLevel, tape,
                      DrawsBeforeRivers(a.generationMethod, tape))
    IN  Map(cellInfos, LAMBDA info :
            CellRecord(info, rivers, a.seaLevel, a.sunlight, a.axialTilt,
                       a.rotationSpeed, a.rotationPeriod, a.orbitalPeriod))

----------------------------------------------------------------------------
(* Inputs *)

\* seed strings: 'world-sim' (the constructor's default), 'a' and ''
Seeds == {SeedDefault, <<97>>, <<>>}

Resolutions == {0, 1}

SeaLevels == {0, 200, 500, 700, 900, 1000}

\* sunlight, axialTilt, rotationSpeed, rotationPeriod, orbitalPeriod: the
\* defaults of generateWorld, and a bright, fast-spinning, tidally locked
\* planet
Climates ==
    { [sunlight |-> 1000, axialTilt |-> 23, rotationSpeed |-> 1,
       rotationPeriod |-> 10, orbitalPeriod |-> 3650],
      [sunlight |-> 2000, axialTilt |-> 0, rotationSpeed |-> 4,
       rotationPeriod |-> 10, orbitalPeriod |-> 10] }

\* 'other' is a method string generateWorld does not recognise
Methods == {"noise", "tectonic", "other"}

\* the arguments of a generateWorld call
Args ==
    { [resolution |-> r, seaLevel |-> sl, sunlight |-> c.sunlight,
       axialTilt |-> c.axialTilt, rotationSpeed |-> c.rotationSpeed,
       rotationPeriod |-> c.rotationPeriod,
       orbitalPeriod |-> c.orbitalPeriod, generationMethod |-> m]
      : r \in Resolutions, sl \in SeaLevels, c \in Climates, m \in Methods }

\* the arguments used where operations interleave (Spec): resolution 1, a
\* low sea level, the default climate, every method
ProgramArgs ==
    {a \in Args : a.resolution = 1 /\ a.seaLevel = 200 /\ a.sunlight = 1000}

\* the draws of the calls made where operations interleave: two tapes that
\* differ in every draw
ProgramTapes == {t \in Tapes : t \in {<<0, 4>>, <<9, 9>>}}

\* App.generate passes its params and no method: generationMethod = 'noise'
AppArgs == {a \in ProgramArgs : a.generationMethod = "noise"}

----------------------------------------------------------------------------
(* State *)

VARIABLES
    seed,               \* the seed string the noise field was last built from
    noise3D,            \* WorldGenerator.noise3D
    heightMapContext,   \* WorldGenerator.heightMapContext
    heightMapWidth,     \* WorldGenerator.heightMapWidth
    heightMapHeight,    \* WorldGenerator.heightMapHeight
    loads,              \* the loadHeightMap calls made, in order
    call,               \* the most recent generateWorld call
    probe               \* the most recent direct call of a ClimateSystem function

vars == <<seed, noise3D, heightMapContext, heightMapWidth, heightMapHeight,
          loads, call, probe>>

genVars == <<seed, noise3D>>

mapVars == <<heightMapContext, heightMapWidth, heightMapHeight>>

\* the generator's fields, as generateWorld reads them
Generator ==
    [noise3D |-> noise3D, heightMapContext |-> heightMapContext,
     heightMapWidth |-> heightMapWidth, heightMapHeight |-> heightMapHeight]

NoCall == [made |-> FALSE]

NoProbe == [fn |-> "none"]

\* the record of a generateWorld call: the fields it read (g), the seed
\* string last given before it, its arguments and its Math.random draws
CallOf(g, s, a, tape) ==
    [made |-> TRUE, g |-> g, seed |-> s, args |-> a, tape |-> tape]

\* the array the call c returned
Returned(c) == generateWorld(c.g, c.args, c.tape)

\* the noise field of the constructor: createNoise3D over the seed's hash
ConstructorNoise(s) == createNoise3D(SeedRandom(s))

\* a variant of SetSeedNoise that rebuilds the default seed's field whatever
\* the seed; C9 must fail of it
SetSeedNoise_Default(s) == createNoise3D(SeedRandom(SeedDefault))

\* the noise field of setSeed: createNoise3D over the seed's hash
SetSeedNoise(s) == createNoise3D(SeedRandom(s))

\* new WorldGenerator(s): the fields' initialisers and the constructor
Init ==
    /\ seed \in Seeds
    /\ noise3D = ConstructorNoise(seed)
    /\ heightMapContext = NoContext
    /\ heightMapWidth = 0
    /\ heightMapHeight = 0
    /\ loads = <<>>
    /\ call = NoCall
    /\ probe = NoProbe

----------------------------------------------------------------------------
(* Promises and the event loop *)

\* resolve() of the promise of load l: settles it if it is pending
Resolve(l) ==
    [l EXCEPT !.resolveCalls = @ + 1,
              !.promise = IF @ = "pending" THEN "resolved" ELSE @]

\* reject() of the promise of load l: settles it if it is pending
Reject(l) ==
    [l EXCEPT !.rejectCalls = @ + 1,
              !.promise = IF @ = "pending" THEN "rejected" ELSE @]

\* a variant of AwaitOutcome in which a rejection is swallowed and generate()
\* runs all the same; C8 must fail of it
AwaitOutcome_Swallowed(l) == "generated"

\* handleFileChange after `await generator.loadHeightMap(file)`: generate()
\* runs when the promise was fulfilled; a rejection is thrown at the await
AwaitOutcome(l) == IF l.promise = "resolved" THEN "generated" ELSE "threw"

\* a settled promise whose awaiting handler has not resumed: its continuation
\* is a microtask, which runs before any further event is dispatched
MicrotaskPending ==
    \E i \in 1..Len(loads) :
        loads[i].promise # "pending" /\ loads[i].handler = "awaiting"

----------------------------------------------------------------------------
(* Operations *)

\* WorldGenerator.setSeed(s)
SetSeed(s) ==
    /\ ~MicrotaskPending
    /\ seed' = s
    /\ noise3D' = SetSeedNoise(s)
    /\ UNCHANGED <<mapVars, loads, call, probe>>

\* WorldGenerator.generateWorld(...a), called with any method
GenerateWorld(a, tape) ==
    /\ ~MicrotaskPending
    /\ call' = CallOf(Generator, seed, a, tape)
    /\ UNCHANGED <<genVars, mapVars, loads, probe>>

\* App.handleRandomize: setSeed(s) with a random string s, then generate()
HandleRandomize(s, a, tape) ==
    /\ ~MicrotaskPending
    /\ seed' = s
    /\ noise3D' = SetSeedNoise(s)
    /\ call' = CallOf([Generator EXCEPT !.noise3D = SetSeedNoise(s)],
                      s, a, tape)
    /\ UNCHANGED <<mapVars, loads, probe>>

\* App.handleFileChange(f) up to its await: loadHeightMap(f) creates the
\* promise and the image, and sets img.src
HandleFileChange(f) ==
    /\ ~MicrotaskPending
    /\ Len(loads) < MaxLoads
    /\ loads' = Append(loads, [file |-> f, promise |-> "pending",
                               resolveCalls |-> 0, rejectCalls |-> 0,
                               handler |-> "awaiting"])
    /\ UNCHANGED <<genVars, mapVars, call, probe>>

\* a variant of ImgOnload that stores the context and leaves the width and
\* the height to a later step, as if the handler could be interrupted
\* between its assignments; C18 must fail of it
ImgOnload_SplitAssign(i, hasContext) ==
    /\ ~MicrotaskPending
    /\ i \in 1..Len(loads)
    /\ loads[i].promise = "pending"
    /\ Decodes(loads[i].file)
    /\ IF ~hasContext
       THEN /\ loads' = [loads EXCEPT ![i] = Reject(@)]
            /\ UNCHANGED mapVars
       ELSE /\ heightMapContext' = loads[i].file
            /\ UNCHANGED <<heightMapWidth, heightMapHeight>>
            /\ loads' = [loads EXCEPT ![i] = Resolve(@)]
    /\ UNCHANGED <<genVars, call, probe>>

\* img.onload of load i; hasContext is whether canvas.getContext('2d')
\* returned a context
ImgOnload(i, hasContext) ==
    /\ ~MicrotaskPending
    /\ i \in 1..Len(loads)
    /\ loads[i].promise = "pending"
    /\ Decodes(loads[i].file)
    /\ IF ~hasContext
       THEN /\ loads' = [loads EXCEPT ![i] = Reject(@)]
            /\ UNCHANGED mapVars
       ELSE /\ heightMapContext' = loads[i].file
            /\ heightMapWidth' = ImageWidth(loads[i].file)
            /\ heightMapHeight' = ImageHeight(loads[i].file)
            /\ loads' = [loads EXCEPT ![i] = Resolve(@)]
    /\ UNCHANGED <<genVars, call, probe>>

\* img.onerror of load i
ImgOnerror(i) ==
    /\ ~MicrotaskPending
    /\ i \in 1..Len(loads)
    /\ loads[i].promise = "pending"
    /\ ~Decodes(loads[i].file)
    /\ loads' = [loads EXCEPT ![i] = Reject(@)]
    /\ UNCHANGED <<genVars, mapVars, call, probe>>

\* App.handleFileChange after its await, for load i
FileChangeResume(i, a, tape) ==
    /\ i \in 1..Len(loads)
    /\ loads[i].promise # "pending"
    /\ loads[i].handler = "awaiting"
    /\ loads' = [loads EXCEPT ![i].handler = AwaitOutcome(loads[i])]
    /\ IF AwaitOutcome(loads[i]) = "generated"
       THEN call' = CallOf(Generator, seed, a, tape)
       ELSE UNCHANGED call
    /\ UNCHANGED <<genVars, mapVars, probe>>

Next ==
    \/ \E s \in Seeds : SetSeed(s)
    \/ \E a \in ProgramArgs, tape \in ProgramTapes : GenerateWorld(a, tape)
    \/ \E s \in Seeds, a \in AppArgs, tape \in ProgramTapes :
           HandleRandomize(s, a, tape)
    \/ \E f \in Files : HandleFileChange(f)
    \/ \E i \in 1..MaxLoads, hasContext \in BOOLEAN : ImgOnload(i, hasContext)
    \/ \E i \in 1..MaxLoads : ImgOnerror(i)
    \/ \E i \in 1..MaxLoads, a \in AppArgs, tape \in ProgramTapes :
           FileChangeResume(i, a, tape)

\* the program: a generator and the operations on it, interleaved
Spec == Init /\ [][Next]_vars

----------------------------------------------------------------------------
(* generateWorld as a function of the generator's fields, its arguments    *)
(* and its draws: the fields are drawn from the states Spec reaches (any   *)
(* seed; no height map, or the context and size of a decoded image)        *)

InitGen ==
    /\ seed \in Seeds
    /\ noise3D = ConstructorNoise(seed)
    /\ heightMapContext \in {NoContext} \cup {f \in Files : Decodes(f)}
    /\ heightMapWidth =
           IF heightMapContext = NoContext THEN 0
           ELSE ImageWidth(heightMapContext)
    /\ heightMapHeight =
           IF heightMapContext = NoContext THEN 0
           ELSE ImageHeight(heightMapContext)
    /\ loads = <<>>
    /\ call = NoCall
    /\ probe = NoProbe

NextGen == \E a \in Args, tape \in Tapes : GenerateWorld(a, tape)

SpecGen == InitGen /\ [][NextGen]_vars

----------------------------------------------------------------------------
(* ClimateSystem.determineBiome as a function of its four arguments, which *)
(* Init leaves open and the one operation draws from the values around     *)
(* every threshold of the table                                            *)

BiomeTemps ==
    {-20000, -5001, -5000, -4999, 4999, 5000, 5001, 9999, 10000, 10001,
     19999, 20000, 20001, 30000}

BiomeMoistures ==
    {0, 300, 301, 400, 401, 500, 501, 600, 601, 800, 801, 1000, 1300}

BiomeHeights == {0, 500, 501, 1000}

BiomeSeaLevels == {500, 1000}

\* ClimateSystem.determineBiome(temp, moisture, height, seaLevel), called
\* directly
DetermineBiome(temp, moisture, height, seaLevel) ==
    /\ probe' = [fn |-> "determineBiome", temp |-> temp,
                 moisture |-> moisture, height |-> height,
                 seaLevel |-> seaLevel,
                 biome |-> determineBiome(temp, moisture, height, seaLevel)]
    /\ UNCHANGED <<genVars, mapVars, loads, call>>

NextBiome ==
    \E temp \in BiomeTemps, moisture \in BiomeMoistures,
       height \in BiomeHeights, seaLevel \in BiomeSeaLevels :
        DetermineBiome(temp, moisture, height, seaLevel)

SpecBiome == Init /\ [][NextBiome]_vars

----------------------------------------------------------------------------
(* ClimateSystem.calculateInsolation called directly, at the poles, the     *)
(* substellar and antistellar meridians and points between them             *)

InsolationLats == {-90, -45, 0, 45, 90}

InsolationLons == {-180, -90, 0, 90, 180}

InsolationTilts == {0, 23}

InsolationSunlights == {0, 1000, 2000}

\* <<rotationPeriod, orbitalPeriod>>: tidally locked twice, and not
InsolationPeriods == {<<10, 10>>, <<3650, 3650>>, <<10, 3650>>}

CalculateInsolation(lat, lon, tilt, sunlight, rotationPeriod, orbitalPeriod) ==
    /\ probe' = [fn |-> "calculateInsolation", lat |-> lat, lon |-> lon,
                 tilt |-> tilt, sunlight |-> sunlight,
                 rotationPeriod |-> rotationPeriod,
                 orbitalPeriod |-> orbitalPeriod,
                 insolation |-> calculateInsolation(lat, lon, tilt, sunlight,
                                    rotationPeriod, orbitalPeriod),
                 zero |-> InsolationIsZero(lat, lon, sunlight,
                              rotationPeriod, orbitalPeriod)]
    /\ UNCHANGED <<genVars, mapVars, loads, call>>

NextInsolation ==
    \E lat \in InsolationLats, lon \in InsolationLons,
       tilt \in InsolationTilts, sunlight \in InsolationSunlights,
       p \in InsolationPeriods :
        CalculateInsolation(lat, lon, tilt, sunlight, p[1], p[2])

SpecInsolation == Init /\ [][NextInsolation]_vars

----------------------------------------------------------------------------
(* WorldGenerator.generateTectonicPlates called directly *)

\* the resolutions of the cell lists given to it
PlateResolutions == 0..3

\* the draws of one call: three values, so that the plate count, the
\* centers and the base elevations vary independently
PlateTapes == [1..3 -> RandVals]

GenerateTectonicPlates(resolution, tape) ==
    LET cells == ExpandCells(resolution)
    IN  /\ probe' = [fn |-> "generateTectonicPlates", cells |-> cells,
                     tape |-> tape,
                     numPlates |-> NumPlates(tape),
                     centers |-> PlateCenters(cells, tape),
                     plateMap |-> PlateMap(cells, tape),
                     plateHeights |-> PlateHeights(tape),
                     heightMap |-> generateTectonicPlates(cells, tape)]
        /\ UNCHANGED <<genVars, mapVars, loads, call>>

NextPlates ==
    \E resolution \in PlateResolutions, tape \in PlateTapes :
        GenerateTectonicPlates(resolution, tape)

SpecPlates == Init /\ [][NextPlates]_vars

----------------------------------------------------------------------------
(* WorldGenerator.simulateRivers step by step: the for loop over the        *)
(* trials and the while loop of each walk, on elevation maps given          *)
(* directly to it.  The maps live on a grid fine enough for a walk to meet  *)
(* the step cap.                                                            *)

\* least number of cells of the maps simulateRivers is run on
RiverMinCells == 128

\* the coarsest resolution with that many cells
RiverRes ==
    CHOOSE r \in 0..10 :
        /\ CellCount(r) >= RiverMinCells
        /\ \A q \in 0..(r - 1) : CellCount(q) < RiverMinCells

RiverGrid == ExpandCells(RiverRes)

RiverMapNames == {"ramp", "steps", "plateau", "noise"}

\* the elevation of cell c on the map m: one descent around the ring, ten
\* terraces of equal elevation, one plateau, and the default noise field
RiverMapHeight(m, c) ==
    LET n == CellCount(RiverRes)
        k == CellPos(c)
    IN  CASE m = "ramp" -> 1000 - (k * 1000) \div n
          [] m = "steps" -> 1000 - 100 * ((k * 10) \div n)
          [] m = "plateau" -> 800
          [] OTHER -> (getNoise(createNoise3D(SeedRandom(SeedDefault)),
                                cellToLatLng(c)[1], cellToLatLng(c)[2])
                       + 1000) \div 2

\* the cells argument of simulateRivers for the map m
RiverCells(m) ==
    [i \in 1..Len(RiverGrid) |->
        [h3Index |-> RiverGrid[i],
         lat |-> cellToLatLng(RiverGrid[i])[1],
         lon |-> cellToLatLng(RiverGrid[i])[2],
         height |-> RiverMapHeight(m, RiverGrid[i])]]

\* const heightMap = new Map(); cells.forEach(c => heightMap.set(...))
RiverHeightMap(cells) ==
    [id \in {cells[i].h3Index : i \in 1..Len(cells)} |->
        (CHOOSE c \in Range(cells) : c.h3Index = id).height]

RiverSeaLevels == {0, 500, 700, 900}

\* the draws of a simulateRivers call: the trials alternate between two
\* sources
RiverTapes == {t \in Tapes : t \in {<<0, 4>>, <<4, 9>>, <<9, 9>>}}

\* whether simulateRivers is running or has returned
InRivers == probe.fn = "simulateRivers"

\* simulateRivers(cells, seaLevel) is called on the map m: rivers is empty,
\* heightMap and candidates are built, and the for loop is about to test
\* i = 0.  disk is gridDisk(c, 1) tabulated for every cell.  visited, path,
\* marked and stop are kept beside the program's
\* variables: every cell a walk has been at, the cells of the current walk
\* in order, the number of rivers.add calls of the current walk, and the
\* way the last walk ended
SimulateRivers(m, seaLevel, tape) ==
    /\ ~InRivers
    /\ probe' = [fn |-> "simulateRivers", map |-> m, seaLevel |-> seaLevel,
                 tape |-> tape,
                 heightMap |-> RiverHeightMap(RiverCells(m)),
                 candidates |-> RiverCandidates(RiverCells(m), seaLevel),
                 disk |-> [c \in Range(RiverGrid) |-> gridDisk(c)],
                 pc |-> "for", i |-> 0, current |-> <<>>,
                 height |-> 0, pathLength |-> 0, rivers |-> {},
                 visited |-> {}, path |-> <<>>, marked |-> 0, stop |-> "none"]
    /\ UNCHANGED <<genVars, mapVars, loads, call>>

\* if (candidates.length === 0) break, and the return after it
RiverNoCandidates ==
    /\ InRivers
    /\ probe.pc = "for"
    /\ probe.i < numRivers
    /\ Len(probe.candidates) = 0
    /\ probe' = [probe EXCEPT !.pc = "done"]
    /\ UNCHANGED <<genVars, mapVars, loads, call>>

\* let current = candidates[Math.floor(Math.random() * candidates.length)];
\* let pathLength = 0
RiverTrial ==
    /\ InRivers
    /\ probe.pc = "for"
    /\ probe.i < numRivers
    /\ Len(probe.candidates) > 0
    /\ LET c == TrialSource(probe.i, probe.candidates, probe.tape, 0)
       IN  probe' = [probe EXCEPT !.pc = "while", !.current = c.h3Index,
                                  !.height = c.height, !.pathLength = 0,
                                  !.visited = @ \cup {c.h3Index},
                                  !.path = <<c.h3Index>>, !.marked = 0,
                                  !.stop = "none"]
    /\ UNCHANGED <<genVars, mapVars, loads, call>>

\* a variant of RiverIteration whose while condition has no step cap; C13
\* must fail of it
RiverIteration_NoCap ==
    /\ InRivers
    /\ probe.pc = "while"
    /\ probe.height > probe.seaLevel
    /\ LET best == LowerNeighbor(probe.current, probe.disk[probe.current], 1,
                                 probe.heightMap, <<>>, probe.height)
       IN  IF best[1] # <<>>
           THEN probe' = [probe EXCEPT !.rivers = @ \cup {probe.current},
                                       !.marked = @ + 1,
                                       !.current = best[1],
                                       !.height = best[2],
                                       !.pathLength = @ + 1,
                                       !.visited = @ \cup {best[1]},
                                       !.path = Append(@, best[1])]
           ELSE probe' = [probe EXCEPT !.rivers = @ \cup {probe.current},
                                       !.marked = @ + 1,
                                       !.pc = "for", !.i = @ + 1,
                                       !.stop = "minimum"]
    /\ UNCHANGED <<genVars, mapVars, loads, call>>

\* one iteration of the while loop: rivers.add(current), then the move to
\* the lowest strictly lower neighbour, or the break when there is none
RiverIteration ==
    /\ InRivers
    /\ probe.pc = "while"
    /\ probe.height > probe.seaLevel
    /\ probe.pathLength < MaxPathLength
    /\ LET best == LowerNeighbor(probe.current, probe.disk[probe.current], 1,
                                 probe.heightMap, <<>>, probe.height)
       IN  IF best[1] # <<>>
           THEN probe' = [probe EXCEPT !.rivers = @ \cup {probe.current},
                                       !.marked = @ + 1,
                                       !.current = best[1],
                                       !.height = best[2],
                                       !.pathLength = @ + 1,
                                       !.visited = @ \cup {best[1]},
                                       !.path = Append(@, best[1])]
           ELSE probe' = [probe EXCEPT !.rivers = @ \cup {probe.current},
                                       !.marked = @ + 1,
                                       !.pc = "for", !.i = @ + 1,
                                       !.stop = "minimum"]
    /\ UNCHANGED <<genVars, mapVars, loads, call>>

\* the while condition fails: the trial ends and the for loop goes on
RiverWhileExit ==
    /\ InRivers
    /\ probe.pc = "while"
    /\ ~(probe.height > probe.seaLevel /\ probe.pathLength < MaxPathLength)
    /\ probe' = [probe EXCEPT !.pc = "for", !.i = @ + 1,
                              !.stop = IF probe.height > probe.seaLevel
                                       THEN "cap" ELSE "sea"]
    /\ UNCHANGED <<genVars, mapVars, loads, call>>

\* i reaches numRivers: return rivers
RiverReturn ==
    /\ InRivers
    /\ probe.pc = "for"
    /\ probe.i >= numRivers
    /\ probe' = [probe EXCEPT !.pc = "done"]
    /\ UNCHANGED <<genVars, mapVars, loads, call>>

\* the steps of a running simulateRivers call
RiverStep ==
    \/ RiverNoCandidates
    \/ RiverTrial
    \/ RiverIteration
    \/ RiverWhileExit
    \/ RiverReturn

NextRivers ==
    \/ \E m \in RiverMapNames, seaLevel \in RiverSeaLevels,
          tape \in RiverTapes :
           SimulateRivers(m, seaLevel, tape)
    \/ RiverStep

\* new WorldGenerator(): the rivers do not depend on the seed
InitRivers == Init /\ seed = SeedDefault

SpecRivers == InitRivers /\ [][NextRivers]_vars

\* simulateRivers is synchronous: once called it runs on, step after step
SpecRiversLive == SpecRivers /\ WF_vars(RiverStep)

----------------------------------------------------------------------------
(* Claims *)

\* the river set simulateRivers returned in the call c
RiversOf(c) ==
    simulateRivers(CellInfos(c.g, c.args.resolution, c.args.generationMethod,
                             c.tape),
                   c.args.seaLevel, c.tape,
                   DrawsBeforeRivers(c.args.generationMethod, c.tape))

\* C1: every record generateWorld returns has its moisture in [0, 1], river
\* cells (which get the +0.3 bonus) included.
C1_MoistureInUnit ==
    call.made =>
        LET world == Returned(call)
        IN  \A i \in 1..Len(world) :
                world[i].moisture >= 0 /\ world[i].moisture <= 1000

\* C2: a generateWorld call made on the same generator fields with the same
\* seed and the same arguments as the call before it returns the same
\* records in the same order, whatever its random draws.
C2_Determinism ==
    [][(/\ call.made
        /\ call'.made
        /\ call'.g = call.g
        /\ call'.seed = call.seed
        /\ call'.args = call.args)
       => Returned(call') = Returned(call)]_vars

\* C3: generateWorld returns one record per cell of the grid at the asked
\* resolution, record i carrying the id of the i-th cell of that resolution,
\* whatever the seed, method, sea level, height map and rivers.
C3_OneRecordPerCell ==
    call.made =>
        LET world == Returned(call)
        IN  /\ Len(world) = CellCount(call.args.resolution)
            /\ \A i \in 1..Len(world) :
                   world[i].h3Index = CellAt(call.args.resolution, i - 1)

\* a call at resolution 1, with a height map loaded and a river found, that
\* returned one record for each cell of resolution 1
C3_Witness ==
    /\ call.made
    /\ call.args.resolution = 1
    /\ call.g.heightMapContext # NoContext
    /\ RiversOf(call) # {}
    /\ Len(Returned(call)) = NumBase * Branch

\* C4: in every generateWorld output a river cell above sea level has biome
\* RIVER, a cell outside the river set never has it, and determineBiome
\* never returns it.
C4_RiverBiome ==
    call.made =>
        LET world == Returned(call)
            rivers == RiversOf(call)
        IN  \A i \in 1..Len(world) :
                LET r == world[i]
                IN  /\ (r.h3Index \in rivers /\ r.height > call.args.seaLevel)
                           => r.biome = "RIVER"
                    /\ r.h3Index \notin rivers => r.biome # "RIVER"
                    /\ determineBiome(r.temperature, r.moisture, r.height,
                                      call.args.seaLevel) # "RIVER"

\* a call whose output has a river cell above sea level, classified RIVER,
\* and a land cell outside the river set
C4_Witness ==
    /\ call.made
    /\ LET world == Returned(call)
           rivers == RiversOf(call)
       IN  /\ \E i \in 1..Len(world) :
                  /\ world[i].h3Index \in rivers
                  /\ world[i].height > call.args.seaLevel
                  /\ world[i].biome = "RIVER"
           /\ \E i \in 1..Len(world) :
                  /\ world[i].h3Index \notin rivers
                  /\ world[i].height > call.args.seaLevel

\* C5: every record generateWorld returns has its elevation in [0, 1],
\* whichever elevation source was used.
C5_ElevationInUnit ==
    call.made =>
        LET world == Returned(call)
        IN  \A i \in 1..Len(world) :
                world[i].height >= 0 /\ world[i].height <= 1000

\* a call that sampled a height map and returned a cell of elevation exactly
\* 1 (a pixel of 255)
C5_Witness ==
    /\ call.made
    /\ call.g.heightMapContext # NoContext
    /\ LET world == Returned(call)
       IN  \E i \in 1..Len(world) : world[i].height = 1000

\* C6: with seaLevel = 1.0 every cell generateWorld returns is OCEAN, for
\* every method, seed and climate.
C6_AllOceanAtSeaLevelOne ==
    (call.made /\ call.args.seaLevel = 1000) =>
        LET world == Returned(call)
        IN  \A i \in 1..Len(world) : world[i].biome = "OCEAN"

\* a call with seaLevel = 1.0 that returned a cell of elevation exactly 1.0,
\* classified OCEAN
C6_Witness ==
    /\ call.made
    /\ call.args.seaLevel = 1000
    /\ LET world == Returned(call)
       IN  \E i \in 1..Len(world) :
               world[i].height = 1000 /\ world[i].biome = "OCEAN"

\* whether a loadHeightMap call has succeeded
HeightMapLoaded ==
    \E i \in 1..Len(loads) : loads[i].promise = "resolved"

\* the elevations the priority rule of C7 gives the cells of the call c
PriorityElevations(c) ==
    LET cells == ExpandCells(c.args.resolution)
        ctx == c.g.heightMapContext
        plates == IF ctx = NoContext /\ c.args.generationMethod = "tectonic"
                  THEN generateTectonicPlates(cells, c.tape)
                  ELSE <<>>
    IN  [i \in 1..Len(cells) |->
            LET lat == cellToLatLng(cells[i])[1]
                lon == cellToLatLng(cells[i])[2]
                noise == getNoise(c.g.noise3D, lat, lon)
            IN  CASE ctx # NoContext ->
                         SampleHeightMap(ctx, ImageWidth(ctx),
                                         ImageHeight(ctx), lat, lon)
                  [] ctx = NoContext /\ c.args.generationMethod = "tectonic" ->
                         Min(1000, Max(0, plates[cells[i]] + noise \div 10))
                  [] OTHER -> (noise + 1000) \div 2]

\* C7: a generateWorld call samples the height map for every cell, whatever
\* the method, exactly when a loadHeightMap call has succeeded before it;
\* otherwise the method 'tectonic' gives the plate's base elevation plus
\* 0.1 x noise clamped to [0, 1], and any other method gives (noise + 1) / 2.
C7_ElevationSource ==
    /\ [][call' # call =>
              (HeightMapLoaded <=> call'.g.heightMapContext # NoContext)]_vars
    /\ [](call.made =>
              LET world == Returned(call)
                  expected == PriorityElevations(call)
              IN  /\ Len(world) = Len(expected)
                  /\ \A i \in 1..Len(world) : world[i].height = expected[i])

\* a call with method 'tectonic' made after a height map was loaded, whose
\* elevations are the raster's
C7_Witness ==
    /\ call.made
    /\ HeightMapLoaded
    /\ call.args.generationMethod = "tectonic"
    /\ \E i \in 1..Len(Returned(call)) : Returned(call)[i].height = 1000

\* C8: a failing loadHeightMap call rejects its promise once and never
\* resolves it, no step of it (the call, the failing callback, the handler's
\* resumption) changes the height-map fields, and the awaiting
\* handleFileChange throws without calling generateWorld.
C8_FailedLoad ==
    [][/\ Len(loads') > Len(loads) => UNCHANGED mapVars
       /\ \A i \in 1..Len(loads') :
              loads'[i].promise = "rejected" =>
                  /\ loads'[i].rejectCalls = 1
                  /\ loads'[i].resolveCalls = 0
                  /\ loads'[i].handler \in {"awaiting", "threw"}
       /\ \A i \in 1..Len(loads) :
              /\ (loads[i].promise = "pending"
                      /\ loads'[i].promise = "rejected")
                     => UNCHANGED mapVars
              /\ loads[i].promise = "rejected" =>
                     loads'[i].promise = "rejected"
              /\ (loads[i].promise = "rejected"
                      /\ loads[i].handler = "awaiting")
                     => /\ loads'[i].handler = "threw"
                        /\ UNCHANGED <<mapVars, call>>]_vars

\* a load of a decodable image that failed for want of a canvas context,
\* after which the handler threw
C8_Witness ==
    \E i \in 1..Len(loads) :
        /\ Decodes(loads[i].file)
        /\ loads[i].promise = "rejected"
        /\ loads[i].handler = "threw"

\* the value of a seed's random function lies in [0, 1): its numerator is a
\* 32-bit natural
InUnitInterval(h) == h[1] \in 0..65535 /\ h[2] \in 0..65535

\* C9: the noise field a generateWorld call uses is built from the hash (a
\* fraction in [0, 1)) of the seed most recently given before it, by the
\* constructor or by setSeed, and a step that is not a generateWorld call,
\* setSeed included, leaves the earlier call and its records as they were.
C9_SeedDeterminesNoise ==
    /\ [][call' # call =>
              /\ call'.seed = seed'
              /\ call'.g.noise3D = noise3D']_vars
    /\ [](/\ InUnitInterval(SeedRandom(seed))
          /\ noise3D = createNoise3D(SeedRandom(seed))
          /\ call.made =>
                 LET world == Returned(call)
                     random == SeedRandom(call.seed)
                 IN  /\ InUnitInterval(random)
                     /\ call.g.noise3D = createNoise3D(random)
                     /\ (call.g.heightMapContext = NoContext
                             /\ call.args.generationMethod # "tectonic")
                            => \A i \in 1..Len(world) :
                                   world[i].height =
                                       (getNoise(createNoise3D(random),
                                                 world[i].lat, world[i].lon)
                                        + 1000) \div 2)

\* a call made with the seed 'a' on the noise branch, followed by a setSeed
\* to '' that left the call as it was
C9_Witness ==
    /\ call.made
    /\ call.seed = <<97>>
    /\ call.g.heightMapContext = NoContext
    /\ call.args.generationMethod = "noise"
    /\ seed = <<>>
    /\ noise3D # call.g.noise3D

\* the priority table of C10
BiomeTable(temperature, moisture, elevation, seaLevel) ==
    CASE elevation <= seaLevel -> "OCEAN"
      [] elevation > seaLevel /\ temperature < -5000 -> "ICE"
      [] elevation > seaLevel /\ temperature >= -5000 /\ temperature < 5000 ->
             "TUNDRA"
      [] elevation > seaLevel /\ temperature > 20000 ->
             CASE moisture > 800 -> "TROPICAL_RAINFOREST"
               [] moisture <= 800 /\ moisture > 400 -> "SAVANNA"
               [] OTHER -> "DESERT"
      [] elevation > seaLevel /\ temperature <= 20000 /\ temperature > 10000 ->
             CASE moisture > 600 -> "TEMPERATE_FOREST"
               [] moisture <= 600 /\ moisture > 300 -> "GRASSLAND"
               [] OTHER -> "DESERT"
      [] OTHER -> IF moisture > 500 THEN "TAIGA" ELSE "TUNDRA"

\* C10: determineBiome returns, for every input, the tag of the priority
\* table, the boundary temperatures 5, 10 and 20 included.
C10_BiomeTable ==
    probe.fn = "determineBiome" =>
        probe.biome = BiomeTable(probe.temp, probe.moisture, probe.height,
                                 probe.seaLevel)

\* determineBiome called on land at exactly 5 degrees with moisture just
\* above 0.5, which gave TAIGA
C10_Witness ==
    /\ probe.fn = "determineBiome"
    /\ probe.temp = 5000
    /\ probe.height > probe.seaLevel
    /\ probe.moisture = 501
    /\ probe.biome = "TAIGA"

\* C11: simulateRivers returns the empty set when no cell has an elevation
\* above seaLevel + 0.3, so for every seaLevel >= 0.7 and for seaLevel = 0.9
\* on a map that nowhere exceeds 0.9: no trial is run, no cell is visited
\* or marked.
C11_NoCandidatesNoRivers ==
    (/\ InRivers
     /\ \/ probe.seaLevel >= 700
        \/ \A c \in DOMAIN probe.heightMap :
               probe.heightMap[c] <= probe.seaLevel + 300)
    => /\ probe.pc \in {"for", "done"}
       /\ probe.i = 0
       /\ probe.rivers = {}
       /\ probe.visited = {}

\* simulateRivers has returned the empty set for seaLevel = 0.7 on the
\* terraced map, which has land above that sea level, or for seaLevel = 0.9
\* on the plateau at 0.8
C11_Witness ==
    /\ InRivers
    /\ probe.pc = "done"
    /\ probe.rivers = {}
    /\ \/ /\ probe.map = "steps"
          /\ probe.seaLevel = 700
          /\ \E c \in DOMAIN probe.heightMap :
                 probe.heightMap[c] > probe.seaLevel
       \/ /\ probe.map = "plateau"
          /\ probe.seaLevel = 900

\* whether no 1-ring neighbour of the current cell (other than itself, and
\* present in the cell set) lies strictly below the current elevation
AtLocalMinimum ==
    \A n \in Range(probe.disk[probe.current]) \ {probe.current} :
        n \in DOMAIN probe.heightMap => probe.heightMap[n] >= probe.height

\* C13: every simulateRivers call terminates, on maps with plateaus too: it
\* runs at most 50 trials, a trial makes at most 100 moves and marks at most
\* 100 cells, and a trial ends at the step at which the current elevation
\* is at or below seaLevel, no neighbour is strictly lower, or the 100th
\* move has been made, and at no other step.
C13_RiversTerminate ==
    /\ [](InRivers =>
              /\ probe.i <= numRivers
              /\ probe.pathLength <= MaxPathLength
              /\ probe.marked <= MaxPathLength
              /\ Len(probe.path) <= MaxPathLength + 1)
    /\ [][(InRivers /\ probe.pc = "while") =>
              (probe'.pc = "for"
                   <=> \/ probe.height <= probe.seaLevel
                       \/ probe.pathLength >= MaxPathLength
                       \/ AtLocalMinimum)]_vars
    /\ (InRivers ~> (InRivers /\ probe.pc = "done"))

\* simulateRivers has returned after 50 trials, the last of which made its
\* 100th move, having marked 100 cells, and was stopped by the step cap
C13_Witness ==
    /\ InRivers
    /\ probe.pc = "done"
    /\ probe.i = numRivers
    /\ probe.stop = "cap"
    /\ probe.pathLength = MaxPathLength
    /\ probe.marked = MaxPathLength

\* the elevations of the cells of the current walk, in order
PathHeights == [j \in 1..Len(probe.path) |-> probe.heightMap[probe.path[j]]]

\* C14: every move of a river trial goes from the current cell to a 1-ring
\* neighbour, not itself and present in the cell set, whose elevation is
\* the least among such neighbours and strictly below the current cell's;
\* with no strictly lower neighbour the walk stops where it is.  So the
\* elevations along a walk strictly decrease and no cell is on it twice.
C14_SteepestDescent ==
    /\ [][(InRivers /\ probe.pc = "while" /\ probe' # probe) =>
              LET others == {n \in Range(probe.disk[probe.current])
                                   \ {probe.current} :
                                 n \in DOMAIN probe.heightMap}
              IN  IF probe'.pc = "while"
                  THEN /\ probe'.current \in others
                       /\ probe'.height = probe.heightMap[probe'.current]
                       /\ probe'.height < probe.height
                       /\ \A n \in others :
                              probe.heightMap[n] >= probe'.height
                  ELSE /\ probe'.current = probe.current
                       /\ \/ AtLocalMinimum
                          \/ probe.height <= probe.seaLevel
                          \/ probe.pathLength >= MaxPathLength]_vars
    /\ [](InRivers /\ probe.current # <<>> =>
              /\ probe.disk[probe.current] = gridDisk(probe.current)
              /\ probe.height = probe.heightMap[probe.current]
              /\ \A j \in 1..(Len(probe.path) - 1) :
                     PathHeights[j + 1] < PathHeights[j]
              /\ \A j, k \in 1..Len(probe.path) :
                     probe.path[j] = probe.path[k] => j = k)

\* a walk on the noise map has just moved to the lower of two strictly
\* lower neighbours of different elevations
C14_Witness ==
    /\ InRivers
    /\ probe.pc = "while"
    /\ Len(probe.path) >= 2
    /\ LET from == probe.path[Len(probe.path) - 1]
           lower == {n \in Range(probe.disk[from]) \ {from} :
                         probe.heightMap[n] < probe.heightMap[from]}
       IN  /\ Cardinality(lower) = 2
           /\ \E n \in lower : probe.heightMap[n] > probe.height

\* C12: under tidal lock (|rotationPeriod - orbitalPeriod| < 0.1)
\* calculateInsolation returns exactly sunlight at (lat 0, lon 0) and exactly
\* 0 at every point with lon = 180 or -180 and at every point with lat = 90
\* or -90, for every axial tilt
C12_TidalLockInsolation ==
    (/\ probe.fn = "calculateInsolation"
     /\ Abs(probe.rotationPeriod - probe.orbitalPeriod) < 1)
    => /\ (probe.lat = 0 /\ probe.lon = 0)
          => probe.insolation = probe.sunlight
       /\ (probe.lon \in {180, -180} \/ probe.lat \in {90, -90})
          => probe.insolation = 0 /\ probe.zero

\* C15: the set simulateRivers returns is the set of all cells its walks
\* visited: every cell a walk started at or moved to, the last cell of the
\* walk included, and no other cell.
C15_ReturnedIsVisited ==
    (InRivers /\ probe.pc = "done") => probe.rivers = probe.visited

\* the squared planar distance of cell c to the center of plate p
PlateDist(c, p) ==
    LET a == cellToLatLng(c)
        b == cellToLatLng(probe.centers[p])
    IN  (a[1] - b[1]) * (a[1] - b[1]) + (a[2] - b[2]) * (a[2] - b[2])

\* C16: generateTectonicPlates picks K in 8..12 centers among the cells and
\* maps every input cell to the base elevation of the center at minimum
\* dLat^2 + dLon^2, the lowest index winning ties; every base elevation is
\* in [0.1, 0.9], the cells of one plate share it, and every input cell has
\* an entry in the returned map
C16_TectonicPlates ==
    probe.fn = "generateTectonicPlates"
    => /\ probe.numPlates \in 8..12
       /\ Len(probe.centers) = probe.numPlates
       /\ Len(probe.plateHeights) = probe.numPlates
       /\ Range(probe.centers) \subseteq Range(probe.cells)
       /\ \A p \in 1..probe.numPlates :
              probe.plateHeights[p] >= 100 /\ probe.plateHeights[p] <= 900
       /\ DOMAIN probe.heightMap = Range(probe.cells)
       /\ \A c \in Range(probe.cells) :
              \E best \in 1..probe.numPlates :
                  /\ \A p \in 1..probe.numPlates :
                         /\ PlateDist(c, best) <= PlateDist(c, p)
                         /\ PlateDist(c, p) = PlateDist(c, best) => best <= p
                  /\ probe.plateMap[c] = best
                  /\ probe.heightMap[c] = probe.plateHeights[best]
       /\ \A c, d \in Range(probe.cells) :
              probe.plateMap[c] = probe.plateMap[d]
              => probe.heightMap[c] = probe.heightMap[d]

\* a call in which a center is drawn twice with two different base
\* elevations, and a cell other than the center lies on its plate with the
\* elevation of the first occurrence
C16_Witness ==
    /\ probe.fn = "generateTectonicPlates"
    /\ \E i, j \in 1..probe.numPlates :
           /\ i < j
           /\ probe.centers[i] = probe.centers[j]
           /\ probe.plateHeights[i] # probe.plateHeights[j]
           /\ \E c \in Range(probe.cells) :
                  /\ c # probe.centers[i]
                  /\ probe.plateMap[c] = i
                  /\ probe.heightMap[c] = probe.plateHeights[i]

\* C17: every cell of the set simulateRivers returns is one of the input
\* cells and has its elevation strictly above seaLevel; so in every
\* generateWorld output isRiver is true exactly of the records of biome
\* RIVER, and no OCEAN record has isRiver true
C17_RiversAboveSea ==
    call.made =>
        LET world == Returned(call)
            rivers == RiversOf(call)
        IN  /\ \A c \in rivers :
                   \E i \in 1..Len(world) :
                       /\ world[i].h3Index = c
                       /\ world[i].height > call.args.seaLevel
            /\ \A i \in 1..Len(world) :
                   /\ world[i].isRiver <=> world[i].h3Index \in rivers
                   /\ world[i].isRiver <=> world[i].biome = "RIVER"
                   /\ world[i].biome = "OCEAN" => ~world[i].isRiver

\* a call whose output has a river cell next to a lower cell at or below
\* sea level, where the walk ended: that cell is OCEAN and not a river
C17_Witness ==
    /\ call.made
    /\ LET world == Returned(call)
       IN  \E i, j \in 1..Len(world) :
               /\ world[i].isRiver
               /\ world[i].biome = "RIVER"
               /\ world[j].h3Index \in Range(gridDisk(world[i].h3Index))
               /\ world[j].height <= call.args.seaLevel
               /\ world[j].biome = "OCEAN"
               /\ ~world[j].isRiver

\* the height-map fields of a generator that never loaded an image
InitialMapState == <<NoContext, 0, 0>>

\* the height-map fields taken entirely from the image of file f
ImageState(f) == <<f, ImageWidth(f), ImageHeight(f)>>

\* the loads whose image was decoded into the canvas (promise fulfilled)
ResolvedLoads == {i \in 1..Len(loads) : loads[i].promise = "resolved"}

\* the loads that complete in the step at hand
ResolvingLoads ==
    {i \in 1..Len(loads) :
        loads[i].promise = "pending" /\ loads'[i].promise = "resolved"}

\* C18: under every interleaving of overlapping loadHeightMap calls, their
\* onload / onerror callbacks, setSeed and generateWorld calls, the height-map
\* fields (context, width, height) are entirely initial (null, 0, 0) or
\* entirely those of one image, the one whose load completed most recently:
\* only the completion of a load changes them, to that load's image.  A
\* generateWorld call reads the three fields as they stand, never the context
\* of one image with the size of another, and a call made while a load is
\* pending reads what earlier completions left
C18_HeightMapAtomic ==
    /\ [](/\ mapVars \in {InitialMapState}
                          \cup {ImageState(loads[i].file) : i \in ResolvedLoads}
          /\ ResolvedLoads = {} => mapVars = InitialMapState
          /\ call.made =>
                 <<call.g.heightMapContext, call.g.heightMapWidth,
                   call.g.heightMapHeight>>
                     \in {InitialMapState}
                          \cup {ImageState(loads[i].file) : i \in ResolvedLoads})
    /\ [][/\ \A i \in ResolvingLoads : mapVars' = ImageState(loads[i].file)
          /\ ResolvingLoads = {} => mapVars' = mapVars
          /\ call' # call =>
                 /\ mapVars' = mapVars
                 /\ <<call'.g.heightMapContext, call'.g.heightMapWidth,
                      call'.g.heightMapHeight>> = mapVars]_vars

\* two overlapping loads of different images completed in the reverse order:
\* the second load completed first and its handler generated from its image
\* while the first was pending; the first has now completed, the fields are
\* those of its image, and its handler has not resumed yet
C18_Witness ==
    /\ Len(loads) = 2
    /\ loads[1].file # loads[2].file
    /\ loads[1].promise = "resolved" /\ loads[1].handler = "awaiting"
    /\ loads[2].promise = "resolved" /\ loads[2].handler = "generated"
    /\ mapVars = ImageState(loads[1].file)
    /\ call.made
    /\ call.g.heightMapContext = loads[2].file
    /\ call.g.heightMapWidth = ImageWidth(loads[2].file)
    /\ call.g.heightMapHeight = ImageHeight(loads[2].file)

====
